---- MODULE Spec2Model ----
(***************************************************************************)
(* A model of src/server.py: the health-tracking backend.                  *)
(*                                                                         *)
(* State: the three MongoDB collections (users, water_logs,                *)
(* progress_logs), the server's wall clock, the objects built while the    *)
(* module loads (the FastAPI objects, the APIRouter, the name `app`), the  *)
(* update_user requests in flight (the only handler with more than one     *)
(* database round trip) and the last response sent.                        *)
(*                                                                         *)
(* Every handler other than update_user makes one database call, so it is  *)
(* one atomic action; update_user is three (find_one, update_one,          *)
(* find_one), and other requests may run between them.                     *)
(*                                                                         *)
(* The handler actions are the functions registered on api_router; they    *)
(* are guarded by their route being registered there.  Whether the         *)
(* exported `app` reaches them is a separate question (ExportedRoutes).    *)
(***************************************************************************)
EXTENDS Integers, Sequences, FiniteSets, TLC

\* ---------------------------------------------------------------- bounds
\* The whole program (Spec): users, logs and update_user requests.
MaxUsers == 1
MaxLogs == 1
MaxPuts == 1
\* Concurrent updates (SpecUsers).
MaxUsersU == 2
MaxPutsU == 2
\* Logs beside users and updates (SpecLogs).
MaxLogsL == 2
\* Logs posted on top of the stored ones (SpecWater, SpecProgress).
MaxNewLogs == 2
\* Users whose bmi is asked for (SpecBmi).
MaxUsersB == 1

\* ------------------------------------------------------- program constants
WaterToListLimit == 1000
ProgressToListLimit == 1000
WaterMlPerKg == 35

Min(a, b) == IF a < b THEN a ELSE b

\* ------------------------------------------------------------------ text
\* A string the code builds or compares character by character is a
\* sequence of one-character strings.
DigitChar == <<"0", "1", "2", "3", "4", "5", "6", "7", "8", "9">>

\* The code point of a character of a date string.
CharCode(c) ==
    IF c = "-" THEN 45
    ELSE 47 + (CHOOSE i \in 1..10 : DigitChar[i] = c)

\* %m and %d: two digits, zero padded.
Fmt2(n) == <<DigitChar[((n \div 10) % 10) + 1], DigitChar[(n % 10) + 1]>>

\* %Y of a four-digit year.
Fmt4(n) == Fmt2(n \div 100) \o Fmt2(n % 100)

\* datetime.strftime("%Y-%m-%d")
strftime(t) == Fmt4(t[1]) \o <<"-">> \o Fmt2(t[2]) \o <<"-">> \o Fmt2(t[3])

\* datetime.isoformat(): the textual form of a timestamp.
isoformat(t) == [iso |-> strftime(t)]

\* isinstance(x, str) of a stored timestamp.
IsStr(x) == "iso" \in DOMAIN x

\* datetime.fromisoformat(): parses the date digits back.
Digit(c) == CharCode(c) - 48
ParseInt(s) ==
    LET F[i \in 0..Len(s)] == IF i = 0 THEN 0 ELSE F[i - 1] * 10 + Digit(s[i])
    IN F[Len(s)]
fromisoformat(x) ==
    <<ParseInt(SubSeq(x.iso, 1, 4)), ParseInt(SubSeq(x.iso, 6, 7)),
      ParseInt(SubSeq(x.iso, 9, 10))>>

\* String order as MongoDB's sort uses it: by code point, a proper prefix
\* first.
StrLess(a, b) ==
    \E i \in 1..(Min(Len(a), Len(b)) + 1) :
        /\ \A j \in 1..(i - 1) : a[j] = b[j]
        /\ \/ i = Len(a) + 1 /\ i <= Len(b)
           \/ i <= Len(a) /\ i <= Len(b) /\ CharCode(a[i]) < CharCode(b[i])

\* ----------------------------------------------------------- the clock
\* The instants datetime.now(timezone.utc) returns, as <<year, month, day>>.
Days == << <<2026, 1, 9>>, <<2026, 1, 10>> >>
DaySet == {Days[i] : i \in 1..Len(Days)}

\* ------------------------------------------------------------- requests
\* Request bodies of POST /user and PUT /user/{id}: JSON objects; the
\* second leaves goal_weight out.
Bodies ==
    { [name |-> "ana", age |-> 30, weight |-> 70, height |-> 175,
       sex |-> "female", gym_attendance |-> TRUE, goal_weight |-> 65],
      [name |-> "bob", age |-> 41, weight |-> 80, height |-> 180,
       sex |-> "male", gym_attendance |-> FALSE] }

\* An Optional value: None is <<>>, a value v is <<v>>.
None == <<>>
Some(v) == <<v>>

\* class UserCreate: goal_weight defaults to None; model_dump() gives all
\* seven fields.
UserCreate(json) ==
    [name |-> json.name, age |-> json.age, weight |-> json.weight,
     height |-> json.height, sex |-> json.sex,
     gym_attendance |-> json.gym_attendance,
     goal_weight |-> IF "goal_weight" \in DOMAIN json
                     THEN Some(json.goal_weight) ELSE None]

MutableFields ==
    {"name", "age", "weight", "height", "sex", "gym_attendance", "goal_weight"}

\* str(uuid.uuid4()): an opaque string no other call returns; the n-th id
\* issued for a kind of record.
uuid4(kind, n) == <<kind, n>>

\* An id no record ever gets.
UnknownId == <<"user", 0>>

VARIABLES
    load_pc,        \* the statement of the module about to run
    app,            \* the object the name `app` is bound to (0: unbound)
    apps,           \* the FastAPI objects built so far: each its routes
    api_router,     \* the routes of api_router
    users,          \* db.users, in insertion order
    water_logs,     \* db.water_logs
    progress_logs,  \* db.progress_logs
    clock,          \* the server's UTC wall clock
    puts,           \* the update_user requests
    resp            \* the last response sent by a one-step handler

vars ==
    <<load_pc, app, apps, api_router, users, water_logs, progress_logs,
      clock, puts, resp>>

store == <<users, water_logs, progress_logs>>
loaded == <<load_pc, app, apps, api_router>>

\* --------------------------------------------------------- module load
\* The route-registering statements of the module in program order:
\* method, path below the router's prefix, handler.
Handlers ==
    << [method |-> "POST", path |-> <<"user">>, name |-> "create_user"],
       [method |-> "GET", path |-> <<"user", "{user_id}">>, name |-> "get_user"],
       [method |-> "PUT", path |-> <<"user", "{user_id}">>, name |-> "update_user"],
       [method |-> "POST", path |-> <<"water">>, name |-> "log_water"],
       [method |-> "GET", path |-> <<"water", "{user_id}">>, name |-> "get_water_logs"],
       [method |-> "GET", path |-> <<"water", "calculate", "{user_id}">>,
        name |-> "calculate_water_goal"],
       [method |-> "GET", path |-> <<"meals">>, name |-> "get_meals"],
       [method |-> "GET", path |-> <<"workouts", "{user_id}">>, name |-> "get_workouts"],
       [method |-> "POST", path |-> <<"progress">>, name |-> "log_progress"],
       [method |-> "GET", path |-> <<"progress", "{user_id}">>, name |-> "get_progress"],
       [method |-> "GET", path |-> <<"bmi", "{user_id}">>, name |-> "calculate_bmi"],
       [method |-> "GET", path |-> <<"motivation">>, name |-> "get_motivation"] >>

RouterPrefix == <<"api">>

\* The statements of the module that build or change the objects, in order.
LoadProgram ==
    <<"new_app", "new_router", "register", "include_router",
      "add_middleware", "on_shutdown", "rebind_app", "home", "done">>

Stmt == LoadProgram[load_pc]

\* app = FastAPI(): a new object with no routes, bound to the name `app`.
FastAPI ==
    /\ apps' = Append(apps, {})
    /\ app' = Len(apps) + 1

\* line 23
LoadNewApp ==
    /\ Stmt = "new_app"
    /\ FastAPI
    /\ load_pc' = load_pc + 1
    /\ UNCHANGED <<api_router, store, clock, puts, resp>>

\* line 26: api_router = APIRouter(prefix="/api")
LoadNewRouter ==
    /\ Stmt = "new_router"
    /\ api_router' = {}
    /\ load_pc' = load_pc + 1
    /\ UNCHANGED <<app, apps, store, clock, puts, resp>>

\* The @api_router.<method>(path) decorators: each adds the route with the
\* router's prefix in front.
Decorated ==
    { [method |-> Handlers[i].method,
       path |-> RouterPrefix \o Handlers[i].path,
       name |-> Handlers[i].name] : i \in 1..Len(Handlers) }

LoadRegister ==
    /\ Stmt = "register"
    /\ api_router' = api_router \cup Decorated
    /\ load_pc' = load_pc + 1
    /\ UNCHANGED <<app, apps, store, clock, puts, resp>>

\* line 396: app.include_router(api_router) copies the router's routes
\* into the object `app` names at that time.
include_router(r) == [apps EXCEPT ![app] = @ \cup r]

LoadIncludeRouter ==
    /\ Stmt = "include_router"
    /\ apps' = include_router(api_router)
    /\ load_pc' = load_pc + 1
    /\ UNCHANGED <<app, api_router, store, clock, puts, resp>>

\* lines 398-415: the CORS middleware and the shutdown hook add no route.
LoadNoRoute ==
    /\ Stmt \in {"add_middleware", "on_shutdown"}
    /\ load_pc' = load_pc + 1
    /\ UNCHANGED <<app, apps, api_router, store, clock, puts, resp>>

\* line 420: app = FastAPI(), a second object.
LoadRebindApp ==
    /\ Stmt = "rebind_app"
    /\ FastAPI
    /\ load_pc' = load_pc + 1
    /\ UNCHANGED <<api_router, store, clock, puts, resp>>

HomeRoute == [method |-> "GET", path |-> <<>>, name |-> "home"]

\* lines 422-424: @app.get("/") on the object `app` names now.
LoadHome ==
    /\ Stmt = "home"
    /\ apps' = [apps EXCEPT ![app] = @ \cup {HomeRoute}]
    /\ load_pc' = load_pc + 1
    /\ UNCHANGED <<app, api_router, store, clock, puts, resp>>

Load ==
    \/ LoadNewApp
    \/ LoadNewRouter
    \/ LoadRegister
    \/ LoadIncludeRouter
    \/ LoadNoRoute
    \/ LoadRebindApp
    \/ LoadHome

Loaded == LoadProgram[load_pc] = "done"

\* The routes of the application object the module exports as `app`.
ExportedRoutes == IF app = 0 THEN {} ELSE apps[app]

\* The handler `name` is registered on api_router.
Registered(name) == Loaded /\ \E r \in api_router : r.name = name


\* ------------------------------------------------------------ the store
\* An insert that writes over the last document stored.
insert_over_last(coll, doc, oid) ==
    IF coll = <<>> THEN <<("_id" :> oid) @@ doc>>
    ELSE [coll EXCEPT ![Len(coll)] = ("_id" :> oid) @@ doc]

\* insert_one(doc): the driver adds an _id and the document goes last.
insert_one(coll, doc, oid) == Append(coll, ("_id" :> oid) @@ doc)

\* The projection {"_id": 0}.
NoId(doc) == [f \in DOMAIN doc \ {"_id"} |-> doc[f]]

\* A lookup that forgets its filter: the first document of the collection.
find_one_unfiltered(coll, id) ==
    IF coll = <<>> THEN None ELSE Some(coll[1])

\* find_one({"id": id}): the first document with that id, None (<<>>) when
\* there is none.
find_one(coll, id) ==
    LET hits == {i \in 1..Len(coll) : coll[i].id = id}
    IN IF hits = {} THEN None
       ELSE Some(coll[CHOOSE i \in hits : \A j \in hits : i <= j])

\* An update that forgets its filter: every document gets the fields.
update_every(coll, id, fields) ==
    [k \in 1..Len(coll) |->
        [f \in DOMAIN coll[k] |-> IF f \in DOMAIN fields
                                  THEN fields[f] ELSE coll[k][f]]]

\* An update whose filter matches nothing: the collection stays as it was.
update_nothing(coll, id, fields) == coll

\* update_one({"id": id}, {"$set": fields}): sets the fields of the first
\* document with that id and leaves its other fields.
update_one(coll, id, fields) ==
    LET hits == {i \in 1..Len(coll) : coll[i].id = id}
    IN IF hits = {} THEN coll
       ELSE LET k == CHOOSE i \in hits : \A j \in hits : i <= j
            IN [coll EXCEPT ![k] =
                   [f \in DOMAIN @ |-> IF f \in DOMAIN fields
                                       THEN fields[f] ELSE @[f]]]

\* The cursor's to_list(n): at most the first n documents.
to_list(s, n) == SubSeq(s, 1, Min(Len(s), n))

\* The ObjectId the driver gives the next document inserted.
ObjectId == <<"oid", Len(users) + Len(water_logs) + Len(progress_logs) + 1>>

\* The handlers turn a stored textual timestamp back into a datetime.
ParseField(doc, f) ==
    IF IsStr(doc[f]) THEN [doc EXCEPT ![f] = fromisoformat(doc[f])] ELSE doc

\* ---------------------------------------------------------------- users
\* POST /user, lines 75-84.
create_user(json) ==
    /\ Registered("create_user")
    /\ LET user_dict == UserCreate(json)
           user_obj == user_dict @@
                       [id |-> uuid4("user", Len(users) + 1), created_at |-> clock]
           doc == [user_obj EXCEPT !.created_at = isoformat(@)]
       IN /\ users' = insert_one(users, doc, ObjectId)
          /\ resp' = [endpoint |-> "create_user", status |-> 200, body |-> user_obj]
    /\ UNCHANGED <<loaded, water_logs, progress_logs, clock, puts>>

\* GET /user/{user_id}, lines 86-95.
get_user(user_id) ==
    /\ Registered("get_user")
    /\ LET user == find_one(users, user_id)
       IN resp' =
              IF user = None
              THEN [endpoint |-> "get_user", user_id |-> user_id, status |-> 404]
              ELSE [endpoint |-> "get_user", user_id |-> user_id, status |-> 200,
                    body |-> ParseField(NoId(user[1]), "created_at")]
    /\ UNCHANGED <<loaded, store, clock, puts>>

\* PUT /user/{user_id}, lines 97-101: the request arrives and looks the
\* user up.
update_user_find(user_id, json) ==
    /\ Registered("update_user")
    /\ LET existing == find_one(users, user_id)
       IN puts' = Append(puts,
              IF existing = None
              THEN [pc |-> "done", user_id |-> user_id, json |-> json,
                    body |-> UserCreate(json), status |-> 404]
              ELSE [pc |-> "checked", user_id |-> user_id, json |-> json,
                    body |-> UserCreate(json)])
    /\ UNCHANGED <<loaded, store, clock, resp>>

\* lines 103-104: the $set of the request's fields (update_dict is the
\* request's model_dump()).
update_user_write(r) ==
    /\ r \in 1..Len(puts)
    /\ puts[r].pc = "checked"
    /\ users' = update_one(users, puts[r].user_id, puts[r].body)
    /\ puts' = [puts EXCEPT ![r].pc = "written"]
    /\ UNCHANGED <<loaded, water_logs, progress_logs, clock, resp>>

\* The read-back of line 106 and what the handler returns of it.
ReadBack(r) ==
    LET updated == find_one(users, puts[r].user_id)
    IN IF updated = None
       THEN [pc |-> "done", user_id |-> puts[r].user_id, json |-> puts[r].json,
             body |-> puts[r].body, status |-> 500]
       ELSE [pc |-> "done", user_id |-> puts[r].user_id, json |-> puts[r].json,
             body |-> puts[r].body, status |-> 200,
             response |-> ParseField(NoId(updated[1]), "created_at")]

\* lines 106-110: the read-back and the response.
update_user_read(r) ==
    /\ r \in 1..Len(puts)
    /\ puts[r].pc = "written"
    /\ puts' = [puts EXCEPT ![r] = ReadBack(r)]
    /\ UNCHANGED <<loaded, store, clock, resp>>

\* ----------------------------------------------------------- water logs
\* POST /water, lines 113-125.
log_water(user_id, amount) ==
    /\ Registered("log_water")
    /\ LET today == strftime(clock)
           water_obj == [id |-> uuid4("water", Len(water_logs) + 1),
                         user_id |-> user_id, amount |-> amount,
                         date |-> today, timestamp |-> clock]
           doc == [water_obj EXCEPT !.timestamp = isoformat(@)]
       IN /\ water_logs' = insert_one(water_logs, doc, ObjectId)
          /\ resp' = [endpoint |-> "log_water", status |-> 200, body |-> water_obj]
    /\ UNCHANGED <<loaded, users, progress_logs, clock, puts>>

\* The documents of a cursor as the handlers return them: without _id,
\* the timestamp parsed.
Returned(docs) ==
    [i \in 1..Len(docs) |-> ParseField(NoId(docs[i]), "timestamp")]

\* A filter that forgets the date.
FindWaterAnyDate(user_id, date) ==
    LET Match(l) == l.user_id = user_id
    IN SelectSeq(water_logs, Match)

\* find({"user_id": u, "date": d}) on db.water_logs, in stored order.
FindWater(user_id, date) ==
    LET Match(l) == l.user_id = user_id /\ l.date = date
    IN SelectSeq(water_logs, Match)

\* GET /water/{user_id}?date=, lines 127-138.  `date` is an Optional
\* string; None and the empty string are both falsy.
get_water_logs(user_id, date) ==
    /\ Registered("get_water_logs")
    /\ LET d == IF date = None \/ date = Some(<<>>) THEN strftime(clock)
                ELSE date[1]
           logs == to_list(FindWater(user_id, d), WaterToListLimit)
       IN resp' = [endpoint |-> "get_water_logs", user_id |-> user_id,
                   date |-> date, status |-> 200, body |-> Returned(logs)]
    /\ UNCHANGED <<loaded, store, clock, puts>>

\* -------------------------------------------------------- floating point
\* A float the code computes is the exact rational num/den (den > 0) and
\* err, the sign of what rounding has added to it: the value is exact
\* (err = 0) when every operation so far had a representable result, and
\* otherwise lies just below (-1) or just above (1) the rational.
RECURSIVE OddPart(_)
OddPart(n) == IF n % 2 = 0 THEN OddPart(n \div 2) ELSE n

\* num/den is a binary fraction: a double holds it exactly (the numbers
\* here are far below 2^53).
Dyadic(num, den) == num % OddPart(den) = 0

\* The rounding of one operation on operands with errors ea and eb whose
\* exact result is num/den: exact when the operands are and the result is
\* representable; the nearest double, on either side, when the operands
\* are exact and the result is not; anything when an operand is off.
Rounding(ea, eb, num, den) ==
    IF ea = 0 /\ eb = 0
    THEN IF Dyadic(num, den) THEN {0} ELSE {-1, 1}
    ELSE {-1, 0, 1}

\* a / b for b # 0 (the operands non-negative in num, positive in den).
FloatDiv(a, b) ==
    {[num |-> a.num * b.den, den |-> a.den * b.num, err |-> e] :
        e \in Rounding(a.err, b.err, a.num * b.den, a.den * b.num)}

\* a ** 2
FloatSquare(a) ==
    {[num |-> a.num * a.num, den |-> a.den * a.den, err |-> e] :
        e \in Rounding(a.err, a.err, a.num * a.num, a.den * a.den)}

\* A whole number held in a float.
Float(n) == [num |-> n, den |-> 1, err |-> 0]

\* a < t for a threshold num/den that a double holds exactly.
FloatLess(a, tnum, tden) ==
    \/ a.num * tden < tnum * a.den
    \/ a.num * tden = tnum * a.den /\ a.err < 0

\* A rounding that cuts the digits off.
Truncate(a, scale) == (a.num * scale) \div a.den

\* round(a, ndigits) in units of 1/scale (scale = 10^ndigits): to the
\* nearest, a tie decided by the side the float lies on and, for an exact
\* float, to the even neighbour.
Round(a, scale) ==
    LET q == (a.num * scale) \div a.den
        rem == a.num * scale - q * a.den
    IN IF 2 * rem < a.den THEN q
       ELSE IF 2 * rem > a.den THEN q + 1
       ELSE IF a.err < 0 THEN q
       ELSE IF a.err > 0 THEN q + 1
       ELSE IF q % 2 = 0 THEN q ELSE q + 1

\* ------------------------------------------------------------ water goal
\* GET /water/calculate/{user_id}, lines 140-153; daily_goal_liters is in
\* hundredths of a litre.
calculate_water_goal(user_id) ==
    /\ Registered("calculate_water_goal")
    /\ LET user == find_one(users, user_id)
       IN IF user = None
          THEN resp' = [endpoint |-> "calculate_water_goal", user_id |-> user_id,
                        status |-> 404]
          ELSE LET water_goal == user[1].weight * WaterMlPerKg
               IN \E litres \in FloatDiv(Float(water_goal), Float(1000)) :
                      resp' = [endpoint |-> "calculate_water_goal",
                               user_id |-> user_id, status |-> 200,
                               body |-> [user_id |-> user_id,
                                         daily_goal_ml |-> water_goal,
                                         daily_goal_liters |-> Round(litres, 100)]]
    /\ UNCHANGED <<loaded, store, clock, puts>>

\* ------------------------------------------------------ meals, workouts
\* The meal table of lines 158-239: per slot, the recipes' names and
\* calories.
Meals ==
    [breakfast |-> << <<"Omelete com Vegetais", 250>>, <<"Aveia com Frutas", 300>>,
                      <<"Iogurte Natural com Granola", 280>> >>,
     lunch |-> << <<"Frango Grelhado com Legumes", 450>>,
                  <<"Peixe Assado com Salada", 400>>, <<"Salada de Quinoa", 420>> >>,
     dinner |-> << <<"Sopa de Legumes", 200>>, <<"Omelete Light", 220>>,
                   <<"Salada Caesar com Frango", 350>> >>,
     snack |-> << <<"Mix de Castanhas", 150>>, <<"Frutas com Pasta de Amendoim", 180>>,
                  <<"Smoothie Verde", 160>> >>]

\* GET /meals, lines 156-241.
get_meals ==
    /\ Registered("get_meals")
    /\ resp' = [endpoint |-> "get_meals", status |-> 200, body |-> Meals]
    /\ UNCHANGED <<loaded, store, clock, puts>>

\* The two plans of lines 251-319: the type and each day's focus.
Workouts(gym_attendance) ==
    IF gym_attendance
    THEN [type |-> "Academia",
          routine |-> << <<"Segunda-feira", "Peito e Triceps">>,
                         <<"Quarta-feira", "Costas e Biceps">>,
                         <<"Sexta-feira", "Pernas e Ombros">> >>]
    ELSE [type |-> "Casa (Funcional)",
          routine |-> << <<"Segunda/Quarta/Sexta", "Corpo Inteiro">>,
                         <<"Terca/Quinta", "Cardio + Core">> >>]

\* GET /workouts/{user_id}, lines 244-321.
get_workouts(user_id) ==
    /\ Registered("get_workouts")
    /\ LET user == find_one(users, user_id)
       IN resp' =
              IF user = None
              THEN [endpoint |-> "get_workouts", user_id |-> user_id, status |-> 404]
              ELSE [endpoint |-> "get_workouts", user_id |-> user_id, status |-> 200,
                    body |-> Workouts(user[1].gym_attendance)]
    /\ UNCHANGED <<loaded, store, clock, puts>>

\* -------------------------------------------------------- progress logs
\* POST /progress, lines 324-336.
log_progress(user_id, weight) ==
    /\ Registered("log_progress")
    /\ LET today == strftime(clock)
           progress_obj == [id |-> uuid4("progress", Len(progress_logs) + 1),
                            user_id |-> user_id, weight |-> weight,
                            date |-> today, timestamp |-> clock]
           doc == [progress_obj EXCEPT !.timestamp = isoformat(@)]
       IN /\ progress_logs' = insert_one(progress_logs, doc, ObjectId)
          /\ resp' = [endpoint |-> "log_progress", status |-> 200,
                      body |-> progress_obj]
    /\ UNCHANGED <<loaded, users, water_logs, clock, puts>>

\* The cursor's sort("date", direction): the documents by their date
\* string, 1 ascending and -1 descending, documents of one date in stored
\* order.
RECURSIVE SortKeys(_, _, _)
SortKeys(docs, keys, direction) ==
    IF keys = {} THEN <<>>
    ELSE LET first == CHOOSE k \in keys : \A o \in keys \ {k} :
                          IF direction = 1 THEN StrLess(k, o) ELSE StrLess(o, k)
             Is(l) == l.date = first
         IN SelectSeq(docs, Is) \o SortKeys(docs, keys \ {first}, direction)

\* A cursor that is not sorted.
unsorted(docs, direction) == docs

sort(docs, direction) ==
    SortKeys(docs, {docs[i].date : i \in 1..Len(docs)}, direction)

\* find({"user_id": u}) on db.progress_logs, in stored order.
FindProgress(user_id) ==
    LET Match(l) == l.user_id = user_id
    IN SelectSeq(progress_logs, Match)

\* GET /progress/{user_id}, lines 338-346.
get_progress(user_id) ==
    /\ Registered("get_progress")
    /\ LET logs == to_list(sort(FindProgress(user_id), 1), ProgressToListLimit)
       IN resp' = [endpoint |-> "get_progress", user_id |-> user_id,
                   status |-> 200, body |-> Returned(logs)]
    /\ UNCHANGED <<loaded, store, clock, puts>>

\* ------------------------------------------------------------------ bmi
\* Lines 357-368: the class of a computed bmi.
Classify(bmi) ==
    IF FloatLess(bmi, 37, 2) THEN [status |-> "Baixo peso", color |-> "#3B82F6"]
    ELSE IF ~FloatLess(bmi, 37, 2) /\ FloatLess(bmi, 25, 1)
    THEN [status |-> "Peso normal", color |-> "#10B981"]
    ELSE IF ~FloatLess(bmi, 25, 1) /\ FloatLess(bmi, 30, 1)
    THEN [status |-> "Sobrepeso", color |-> "#F59E0B"]
    ELSE [status |-> "Obesidade", color |-> "#EF4444"]

\* Lines 370-375; bmi is in tenths.
BmiResponse(user_id, bmi) ==
    [endpoint |-> "calculate_bmi", user_id |-> user_id, status |-> 200,
     body |-> [user_id |-> user_id, bmi |-> Round(bmi, 10),
               status |-> Classify(bmi).status, color |-> Classify(bmi).color]]

\* GET /bmi/{user_id}, lines 348-375.  A height of 0 divides by zero: the
\* ZeroDivisionError is not caught and the framework answers 500.
calculate_bmi(user_id) ==
    /\ Registered("calculate_bmi")
    /\ LET user == find_one(users, user_id)
       IN IF user = None
          THEN resp' = [endpoint |-> "calculate_bmi", user_id |-> user_id,
                        status |-> 404]
          ELSE IF user[1].height = 0
          THEN resp' = [endpoint |-> "calculate_bmi", user_id |-> user_id,
                        status |-> 500]
          ELSE \E height_m \in FloatDiv(Float(user[1].height), Float(100)) :
               \E squared \in FloatSquare(height_m) :
               \E bmi \in FloatDiv(Float(user[1].weight), squared) :
                   resp' = BmiResponse(user_id, bmi)
    /\ UNCHANGED <<loaded, store, clock, puts>>

\* ----------------------------------------------------------- motivation
\* The pool of lines 380-391.
messages ==
    <<"Voce esta indo bem! Continue assim!",
      "Nao desista hoje! Cada passo conta.",
      "Seu corpo agradece cada escolha saudavel.",
      "Acredite em si mesmo. Voce consegue!",
      "Pequenos progressos diarios levam a grandes resultados.",
      "Voce e mais forte do que pensa!",
      "Mantenha o foco no seu objetivo.",
      "Cada dia e uma nova oportunidade.",
      "Sua saude e seu maior tesouro.",
      "Consistencia e a chave do sucesso!">>

\* A choice that never reaches the last element.
choice_but_last(seq) == {seq[i] : i \in 1..(Len(seq) - 1)}

\* random.choice(seq): what it may return.
random_choice(seq) == {seq[i] : i \in 1..Len(seq)}

\* GET /motivation, lines 378-393, returning m.
get_motivation(m) ==
    /\ Registered("get_motivation")
    /\ m \in random_choice(messages)
    /\ resp' = [endpoint |-> "get_motivation", status |-> 200, message |-> m]
    /\ UNCHANGED <<loaded, store, clock, puts>>

\* ------------------------------------------------------------ the clock
\* The wall clock moves (it is not monotonic: it can be set).
Tick(d) ==
    /\ Loaded
    /\ d # clock
    /\ clock' = d
    /\ UNCHANGED <<loaded, store, puts, resp>>

\* ----------------------------------------------------------------- init
\* The module starts to load: nothing is bound and the database is empty.
Init ==
    /\ load_pc = 1
    /\ app = 0
    /\ apps = <<>>
    /\ api_router = {}
    /\ users = <<>>
    /\ water_logs = <<>>
    /\ progress_logs = <<>>
    /\ clock \in DaySet
    /\ puts = <<>>
    /\ resp = [endpoint |-> "none"]

\* ----------------------------------------------------------------- next
\* What requests carry.
ReqUserIds == {UnknownId} \cup {users[i].id : i \in 1..Len(users)}
Amounts == {250}
Weights == {70}
DateParams == {None, Some(<<>>)} \cup {Some(strftime(d)) : d \in DaySet}

UpdateSteps ==
    \/ \E r \in 1..Len(puts) : update_user_write(r)
    \/ \E r \in 1..Len(puts) : update_user_read(r)

Reads ==
    \/ \E id \in ReqUserIds : get_user(id)
    \/ \E id \in ReqUserIds : calculate_water_goal(id)
    \/ \E id \in ReqUserIds : get_workouts(id)
    \/ \E id \in ReqUserIds : calculate_bmi(id)
    \/ \E id \in ReqUserIds : \E date \in DateParams : get_water_logs(id, date)
    \/ \E id \in ReqUserIds : get_progress(id)
    \/ get_meals
    \/ \E m \in random_choice(messages) : get_motivation(m)

\* The whole program: the module loads, then requests arrive in any order.
Next ==
    \/ Load
    \/ Len(users) < MaxUsers /\ \E json \in Bodies : create_user(json)
    \/ Len(puts) < MaxPuts /\ \E id \in ReqUserIds : \E json \in Bodies :
           update_user_find(id, json)
    \/ UpdateSteps
    \/ Len(water_logs) < MaxLogs /\ \E id \in ReqUserIds : \E a \in Amounts :
           log_water(id, a)
    \/ Len(progress_logs) < MaxLogs /\ \E id \in ReqUserIds : \E w \in Weights :
           log_progress(id, w)
    \/ Reads
    \/ \E d \in DaySet : Tick(d)

Spec == Init /\ [][Next]_vars

\* ------------------------------------------------- the loaded program
\* The state the module's load ends in, with an empty database.
InitLoaded ==
    /\ load_pc = Len(LoadProgram)
    /\ app = 2
    /\ apps = <<Decorated, {HomeRoute}>>
    /\ api_router = Decorated
    /\ users = <<>>
    /\ water_logs = <<>>
    /\ progress_logs = <<>>
    /\ clock \in DaySet
    /\ puts = <<>>
    /\ resp = [endpoint |-> "none"]

\* Users and concurrent updates of them.
NextUsers ==
    \/ Len(users) < MaxUsersU /\ \E json \in Bodies : create_user(json)
    \/ Len(puts) < MaxPutsU /\ \E id \in ReqUserIds : \E json \in Bodies :
           update_user_find(id, json)
    \/ UpdateSteps
    \/ \E id \in ReqUserIds : get_user(id)

SpecUsers == InitLoaded /\ [][NextUsers]_vars

\* Every request that writes, with two logs per collection.
NextLogs ==
    \/ Len(users) < MaxUsers /\ \E json \in Bodies : create_user(json)
    \/ Len(puts) < MaxPuts /\ \E id \in ReqUserIds : \E json \in Bodies :
           update_user_find(id, json)
    \/ UpdateSteps
    \/ Len(water_logs) < MaxLogsL /\ \E id \in ReqUserIds : \E a \in Amounts :
           log_water(id, a)
    \/ Len(progress_logs) < MaxLogsL /\ \E id \in ReqUserIds : \E w \in Weights :
           log_progress(id, w)

SpecLogs == InitLoaded /\ [][NextLogs]_vars

\* ------------------------------------------------ a database with logs
\* The user ids of log requests: logs need no stored user.
LogUserIds == {UnknownId, uuid4("user", 1)}

\* A collection after n POSTs for one user on the later day: what
\* log_water and log_progress stored, in order.
Stored(kind, field, value, n) ==
    [i \in 1..n |->
        ("_id" :> <<"oid", i>>) @@ (field :> value) @@
        [id |-> uuid4(kind, i), user_id |-> uuid4("user", 1),
         date |-> strftime(Days[2]), timestamp |-> isoformat(Days[2])]]

\* The logs posted on top of a collection that started empty or full to
\* the cursor's limit.
Posted(coll, limit) == IF Len(coll) >= limit THEN Len(coll) - limit ELSE Len(coll)

InitWater ==
    /\ load_pc = Len(LoadProgram)
    /\ app = 2
    /\ apps = <<Decorated, {HomeRoute}>>
    /\ api_router = Decorated
    /\ users = <<>>
    /\ water_logs \in {<<>>, Stored("water", "amount", 250, WaterToListLimit)}
    /\ progress_logs = <<>>
    /\ clock \in DaySet
    /\ puts = <<>>
    /\ resp = [endpoint |-> "none"]

NextWater ==
    \/ Posted(water_logs, WaterToListLimit) < MaxNewLogs
       /\ \E id \in LogUserIds : \E a \in Amounts : log_water(id, a)
    \/ \E id \in LogUserIds : \E date \in DateParams : get_water_logs(id, date)
    \/ \E d \in DaySet : Tick(d)

SpecWater == InitWater /\ [][NextWater]_vars

InitProgress ==
    /\ load_pc = Len(LoadProgram)
    /\ app = 2
    /\ apps = <<Decorated, {HomeRoute}>>
    /\ api_router = Decorated
    /\ users = <<>>
    /\ water_logs = <<>>
    /\ progress_logs \in {<<>>, Stored("progress", "weight", 70, ProgressToListLimit)}
    /\ clock \in DaySet
    /\ puts = <<>>
    /\ resp = [endpoint |-> "none"]

NextProgress ==
    \/ Posted(progress_logs, ProgressToListLimit) < MaxNewLogs
       /\ \E id \in LogUserIds : \E w \in Weights : log_progress(id, w)
    \/ \E id \in LogUserIds : get_progress(id)
    \/ \E d \in DaySet : Tick(d)

SpecProgress == InitProgress /\ [][NextProgress]_vars

\* ------------------------------------------------------------ bmi users
BmiWeights == {47, 64, 70, 73, 74, 80, 100, 120}
BmiHeights == {0, 160, 175, 179, 200}
BmiBodies ==
    {[name |-> "ana", age |-> 30, weight |-> w, height |-> h, sex |-> "female",
      gym_attendance |-> TRUE] : w \in BmiWeights, h \in BmiHeights}

NextBmi ==
    \/ Len(users) < MaxUsersB /\ \E json \in BmiBodies : create_user(json)
    \/ \E id \in ReqUserIds : calculate_bmi(id)

SpecBmi == InitLoaded /\ [][NextBmi]_vars

\* ------------------------------------------------------- a fair choice
\* The content endpoints, with a random source that is fair: a message
\* that may be chosen for ever is chosen.
NextContent ==
    \/ Len(users) < MaxUsers /\ \E json \in Bodies : create_user(json)
    \/ \E id \in ReqUserIds : get_workouts(id)
    \/ get_meals
    \/ \E m \in random_choice(messages) : get_motivation(m)
    \/ \E d \in DaySet : Tick(d)

SpecFairChoice ==
    /\ InitLoaded
    /\ [][NextContent]_vars
    /\ \A i \in 1..Len(messages) : WF_vars(get_motivation(messages[i]))

\* =============================================================== claims
StoredUserIds == {users[i].id : i \in 1..Len(users)}

LookupEndpoints ==
    {"get_user", "calculate_water_goal", "get_workouts", "calculate_bmi"}

\* C1: a GET /user/{id}, PUT /user/{id}, GET /water/calculate/{id},
\* GET /workouts/{id} or GET /bmi/{id} whose id no stored user has ends
\* with status 404 and leaves users, water_logs and progress_logs as they
\* were.
C1_UnknownUserIs404 ==
    [][ /\ ( /\ resp' # resp
             /\ resp'.endpoint \in LookupEndpoints
             /\ resp'.user_id \notin StoredUserIds )
           => (resp'.status = 404 /\ UNCHANGED store)
        /\ ( /\ Len(puts') = Len(puts) + 1
             /\ puts'[Len(puts')].user_id \notin StoredUserIds )
           => ( /\ puts'[Len(puts')].pc = "done"
                /\ puts'[Len(puts')].status = 404
                /\ UNCHANGED store ) ]_vars

\* C1's case: with a user stored, a lookup and an update of another id
\* have both ended 404.
C1_Witness ==
    /\ Len(users) = 1
    /\ resp.endpoint = "calculate_bmi"
    /\ resp.user_id \notin StoredUserIds
    /\ resp.status = 404
    /\ \E r \in 1..Len(puts) : puts[r].pc = "done" /\ puts[r].status = 404

\* The value a request body gives a mutable field of the user.
BodyField(json, f) ==
    IF f = "goal_weight"
    THEN IF "goal_weight" \in DOMAIN json THEN <<json.goal_weight>> ELSE <<>>
    ELSE json[f]

RespondsWith(r, json) ==
    \A f \in MutableFields : puts[r].response[f] = BodyField(json, f)

C10_ExportedAppRoutesApi ==
    Loaded =>
        \A i \in 1..Len(Handlers) :
            \E route \in ExportedRoutes :
                /\ route.method = Handlers[i].method
                /\ route.path = <<"api">> \o Handlers[i].path

\* The date a date string stands for, and the order of dates in time.
DateOf(str) ==
    <<ParseInt(SubSeq(str, 1, 4)), ParseInt(SubSeq(str, 6, 7)),
      ParseInt(SubSeq(str, 9, 10))>>
NotAfter(a, b) ==
    \/ a[1] < b[1]
    \/ a[1] = b[1] /\ a[2] < b[2]
    \/ a[1] = b[1] /\ a[2] = b[2] /\ a[3] <= b[3]

\* The date a GET /water asks for: the one given, the server's UTC date
\* when none (or an empty one) is.
AskedDate(date) ==
    IF date = <<>> \/ date = << <<>> >> THEN strftime(clock) ELSE date[1]

\* The places in db.water_logs of the logs of a user and date.
WaterOf(user_id, date) ==
    {j \in 1..Len(water_logs) :
        water_logs[j].user_id = user_id /\ water_logs[j].date = date}

\* A GET /water/{user_id} has just answered.
WaterAnswered == resp' # resp /\ resp'.endpoint = "get_water_logs"

\* C3 as claimed: GET /water/{user_id}?date=d returns exactly the stored
\* logs of that user and date (today's when no date is given), however
\* many are stored.
C3_ReturnsEveryLogOfTheDay ==
    [][ WaterAnswered =>
          LET of == WaterOf(resp'.user_id, AskedDate(resp'.date))
              body == resp'.body
          IN /\ {body[i].id : i \in 1..Len(body)} = {water_logs[j].id : j \in of}
             /\ Len(body) = Cardinality(of) ]_vars

\* A stored log is one of a user and date.
IsWaterOf(log, user_id, date) == log.user_id = user_id /\ log.date = date

\* C3 amended: GET /water/{user_id}?date=d returns the stored logs of
\* that user and date (today's when no date, or an empty one, is given)
\* in stored order, all of them when at most 1000 are stored and the
\* first 1000 otherwise.
C3_ReturnsFirstThousandOfTheDay ==
    [][ WaterAnswered =>
          LET body == resp'.body
              n == Len(body)
              u == resp'.user_id
              d == AskedDate(resp'.date)
              stored == Cardinality({j \in 1..Len(water_logs) :
                                        IsWaterOf(water_logs[j], u, d)})
          IN /\ n = (IF stored <= 1000 THEN stored ELSE 1000)
             /\ \A i \in 1..n :
                  /\ body[i].id[2] \in 1..Len(water_logs)
                  /\ IsWaterOf(water_logs[body[i].id[2]], u, d)
                  /\ water_logs[body[i].id[2]].id = body[i].id
                  /\ water_logs[body[i].id[2]].amount = body[i].amount
                  /\ IsWaterOf(body[i], u, d)
             /\ \A i \in 1..(n - 1) : body[i].id[2] < body[i + 1].id[2]
             /\ n > 0 =>
                  Cardinality({j \in 1..body[n].id[2] :
                                  IsWaterOf(water_logs[j], u, d)}) = n ]_vars

\* C3's case: 1001 logs of one user and day are stored and a GET without
\* a date returned 1000 of them; or two are and it returned both.
C3_Witness ==
    /\ resp.endpoint = "get_water_logs"
    /\ resp.date = <<>>
    /\ Len(resp.body) = 1000
    /\ Cardinality(WaterOf(resp.user_id, strftime(clock))) = 1001

\* The places in db.progress_logs of the logs of a user.
ProgressOf(user_id) ==
    {j \in 1..Len(progress_logs) : progress_logs[j].user_id = user_id}

\* A GET /progress/{user_id} has just answered.
ProgressAnswered == resp' # resp /\ resp'.endpoint = "get_progress"

\* Each entry's date is not after the next one's.
DatesAscend(body) ==
    \A i \in 1..(Len(body) - 1) :
        NotAfter(DateOf(body[i].date), DateOf(body[i + 1].date))

\* C4 as claimed: GET /progress/{user_id} returns every stored log of
\* that user and no other, the date never decreasing.
C4_ReturnsEveryLogAscending ==
    [][ ProgressAnswered =>
          LET of == ProgressOf(resp'.user_id)
              body == resp'.body
          IN /\ {body[i].id : i \in 1..Len(body)} = {progress_logs[j].id : j \in of}
             /\ Len(body) = Cardinality(of)
             /\ DatesAscend(body) ]_vars

\* C4 amended: GET /progress/{user_id} returns stored logs of that user
\* and no other, the date never decreasing: all of them when at most 1000
\* are stored, and otherwise 1000 of them, no log left out dated before
\* one returned.
C4_ReturnsFirstThousandAscending ==
    [][ ProgressAnswered =>
          LET body == resp'.body
              n == Len(body)
              u == resp'.user_id
              stored == Cardinality({j \in 1..Len(progress_logs) :
                                        progress_logs[j].user_id = u})
              last == IF n > 0 THEN DateOf(body[n].date) ELSE <<0, 0, 0>>
              EarlierThanLast(str) == ~NotAfter(last, DateOf(str))
          IN /\ n = (IF stored <= 1000 THEN stored ELSE 1000)
             /\ \A i \in 1..n :
                  /\ body[i].id[2] \in 1..Len(progress_logs)
                  /\ progress_logs[body[i].id[2]].id = body[i].id
                  /\ progress_logs[body[i].id[2]].weight = body[i].weight
                  /\ progress_logs[body[i].id[2]].date = body[i].date
                  /\ progress_logs[body[i].id[2]].user_id = u
                  /\ body[i].user_id = u
             /\ Cardinality({body[i].id : i \in 1..n}) = n
             /\ DatesAscend(body)
             /\ n > 0 =>
                  Cardinality({j \in 1..Len(progress_logs) :
                                  /\ progress_logs[j].user_id = u
                                  /\ EarlierThanLast(progress_logs[j].date)})
                  = Cardinality({i \in 1..n : EarlierThanLast(body[i].date)}) ]_vars

\* C4's case: 1001 logs of a user are stored, the last posted dated
\* before the others, and a GET returned 1000, that one first.
C4_Witness ==
    /\ resp.endpoint = "get_progress"
    /\ Len(resp.body) = 1000
    /\ Cardinality(ProgressOf(resp.user_id)) = 1001
    /\ resp.body[1].id = progress_logs[1001].id
    /\ resp.body[1].date # resp.body[2].date

\* The stored user a bmi response is about.
BmiUser == find_one(users, resp.user_id)[1]
BmiAnswered == resp.endpoint = "calculate_bmi" /\ resp.status = 200

\* The class of weight / (height/100)^2: 1 below 18.5, 2 from 18.5 to
\* below 25, 3 from 25 to below 30, 4 from 30.
BmiClass(weight, height) ==
    IF 2 * weight * 10000 < 37 * height * height THEN 1
    ELSE IF weight * 10000 < 25 * height * height THEN 2
    ELSE IF weight * 10000 < 30 * height * height THEN 3
    ELSE 4

StatusOfClass == <<"Baixo peso", "Peso normal", "Sobrepeso", "Obesidade">>

\* tenths/10 is weight / (height/100)^2 rounded to one decimal (either
\* neighbour at a tie).
IsRounded(tenths, weight, height) ==
    /\ 2 * (tenths * height * height - weight * 100000) <= height * height
    /\ 2 * (weight * 100000 - tenths * height * height) <= height * height

\* C5: for a stored user of height > 0, GET /bmi/{id} answers with the
\* class of weight / (height/100)^2 among the four (the lower bounds
\* 18.5, 25 and 30 included) and with that value rounded to one decimal.
C5_ClassOfExactBmi ==
    (BmiAnswered /\ BmiUser.height > 0)
    => /\ resp.body.status = StatusOfClass[BmiClass(BmiUser.weight, BmiUser.height)]
       /\ IsRounded(resp.body.bmi, BmiUser.weight, BmiUser.height)

C7_EveryMessageEventually ==
    /\ [](resp.endpoint = "get_motivation" =>
            \E i \in 1..10 : resp.message = messages[i])
    /\ \A i \in 1..10 :
         <>(resp.endpoint = "get_motivation" /\ resp.message = messages[i])

\* C7's case: the last message of the pool was returned.
C7_Witness ==
    /\ resp.endpoint = "get_motivation"
    /\ resp.message = "Consistencia e a chave do sucesso!"

\* C8: a stored water or progress log stays in its collection, every
\* field as it was, whatever request runs.
C8_LogsAppendOnly ==
    [][ /\ \A i \in 1..Len(water_logs) :
             \E j \in 1..Len(water_logs') : water_logs'[j] = water_logs[i]
        /\ \A i \in 1..Len(progress_logs) :
             \E j \in 1..Len(progress_logs') : progress_logs'[j] = progress_logs[i]
      ]_vars

\* C8's case: with two logs in each collection, one of them for an id
\* no user has, an update of a user has written.
C8_Witness ==
    /\ Len(water_logs) = 2
    /\ Len(progress_logs) = 2
    /\ \E i \in 1..2 : water_logs[i].user_id \notin StoredUserIds
    /\ \E r \in 1..Len(puts) : puts[r].pc = "written"

====
